---- MODULE Spec2Model ----
(***************************************************************************)
(* Model of package goesd (initutils/goesd/goesd.go): the privileged       *)
(* supervisor that starts redisd, machined and the registered daemons, and *)
(* that stops every other process running its executable image.            *)
(*                                                                         *)
(* The program is single threaded.  pc is the position inside Main / stop, *)
(* and trace is the sequence of calls the program has made to its          *)
(* collaborators (Hook, os.Stat, command.Main, os.Getenv, os.Readlink,     *)
(* filepath.Glob, syscall.Kill, time.Sleep, sockfile/pidfile.RemoveAll),   *)
(* each with its inputs and its result.  What a collaborator answers is an *)
(* input of the action that makes the call.  State the program only reads  *)
(* (the environment, the command.Daemon registry, the process table) is    *)
(* drawn by the action holding the first statement that reads it.          *)
(***************************************************************************)
EXTENDS Integers, Sequences, FiniteSets, TLC

VARIABLES
    pc,        \* position in Main / stop
    args,      \* Main's parameter
    euid,      \* os.Geteuid()
    result,    \* Main's return value, Running until it returns
    trace,     \* calls made to collaborators so far
    Daemon,    \* command.Daemon: daemon name -> level
    todo,      \* keys of command.Daemon the range loop has not produced yet
    proc,      \* the process table: pid -> executable image, NoProc if none
    thisprog,  \* stop: thisprog
    thispid,   \* stop: thispid
    exes,      \* stop: exes
    pids,      \* stop: pids
    idx,       \* stop: position of the running for loop in exes / pids
    sibling    \* history: another process has run the caller's image since
               \* stop began

vars == <<pc, args, euid, result, trace, Daemon, todo, proc, thisprog,
          thispid, exes, pids, idx, sibling>>

startVars == <<Daemon, todo>>
stopVars == <<proc, thisprog, thispid, exes, pids, idx, sibling>>

(***************************************************************************)
(* Bounds and sample inputs                                                *)
(***************************************************************************)
MaxDaemons == 3
MaxPid == 3

DaemonNames == <<"foo", "bar", "baz", "qux", "quux">>
Levels == {-1, 0, 1}
CallErrs == {"E1", "E2"}
ArgLists == {<<>>, <<"stop">>, <<"stop", "now">>, <<"start">>, <<"now", "stop">>}
Euids == {0, 1000}
EnvValues == {<<>>, <<" ", "\t">>, <<" ", "a", "b", "\t", " ", "c", " ">>}
RemoveErrs == {"EACCES"}

Pids == 1..MaxPid
\* the caller's pid: stop runs in the newest process of the host
ThisPids == {MaxPid}
GoesdExe == "/usr/sbin/goesd"
OtherExe == "/bin/sh"
NoProc == "ESRCH"
Images == {GoesdExe, OtherExe}

(***************************************************************************)
(* Values                                                                  *)
(***************************************************************************)
EtcGoesd == "/etc/goesd"

Nil == [kind |-> "nil", err |-> "", args |-> <<>>]
Running == [kind |-> "running", err |-> "", args |-> <<>>]
ErrNotRoot == [kind |-> "ErrNotRoot", err |-> "you aren't root", args |-> <<>>]
Unexpected(a) == [kind |-> "unexpected", err |-> "", args |-> a]
CallErr(e) == [kind |-> "call", err |-> e, args |-> <<>>]

\* ErrValue putting the error inside a new one
ErrValueWrapped(e) ==
    IF e = "nil" THEN Nil ELSE [kind |-> "wrapped", err |-> e, args |-> <<>>]

\* the error value a collaborator returned, as Main hands it on
ErrValue(e) == IF e = "nil" THEN Nil ELSE CallErr(e)

Ev(op, name, argv, path, pid, sig, res) ==
    [op |-> op, name |-> name, argv |-> argv, path |-> path, pid |-> pid,
     sig |-> sig, res |-> res]

HookEv(res) == Ev("Hook", "", <<>>, <<>>, -1, "", res)
StatFileEv(name, res) == Ev("Stat", name, <<>>, <<>>, -1, "", res)
MainEv(name, argv, res) == Ev("command.Main", name, argv, <<>>, -1, "", res)
GetenvEv(name, value) == Ev("Getenv", name, <<>>, value, -1, "", "")

(***************************************************************************)
(* strings.Fields: the maximal runs of non-space characters, in order      *)
(***************************************************************************)
IsSpace(c) == c \in {" ", "\t", "\n"}

RECURSIVE FieldsFrom(_, _, _)
FieldsFrom(s, i, cur) ==
    IF i > Len(s)
    THEN IF cur = "" THEN <<>> ELSE <<cur>>
    ELSE IF IsSpace(s[i])
         THEN (IF cur = "" THEN <<>> ELSE <<cur>>) \o FieldsFrom(s, i + 1, "")
         ELSE FieldsFrom(s, i + 1, cur \o s[i])

Fields(s) == FieldsFrom(s, 1, "")

(***************************************************************************)
(* Main, lines 47-56: privilege gate and argument dispatch                 *)
(***************************************************************************)
Return(r) == /\ result' = r
             /\ pc' = "done"

\* Main with the test of line 48 left out
MainNoGate(a, uid) ==
    /\ pc = "Main"
    /\ args' = a
    /\ euid' = uid
    /\ IF Len(a) > 0
       THEN IF a[1] = "stop"
            THEN /\ pc' = "stop"
                 /\ UNCHANGED result
            ELSE Return(Unexpected(a))
       ELSE /\ pc' = "Hook"
            /\ UNCHANGED result
    /\ UNCHANGED <<trace, startVars, stopVars>>

\* Main taking "stop" anywhere in args for the test of line 52
MainAnyStop(a, uid) ==
    /\ pc = "Main"
    /\ args' = a
    /\ euid' = uid
    /\ IF uid # 0
       THEN Return(ErrNotRoot)
       ELSE IF Len(a) > 0
            THEN IF \E i \in 1..Len(a) : a[i] = "stop"
                 THEN /\ pc' = "stop"
                      /\ UNCHANGED result
                 ELSE Return(Unexpected(a))
            ELSE /\ pc' = "Hook"
                 /\ UNCHANGED result
    /\ UNCHANGED <<trace, startVars, stopVars>>

Main(a, uid) ==
    /\ pc = "Main"
    /\ args' = a
    /\ euid' = uid
    /\ IF uid # 0
       THEN Return(ErrNotRoot)
       ELSE IF Len(a) > 0
            THEN IF a[1] = "stop"
                 THEN /\ pc' = "stop"
                      /\ UNCHANGED result
                 ELSE Return(Unexpected(a))
            ELSE /\ pc' = "Hook"
                 /\ UNCHANGED result
    /\ UNCHANGED <<trace, startVars, stopVars>>

(***************************************************************************)
(* Main, lines 57-94: the startup path                                     *)
(***************************************************************************)
\* one call of a collaborator that may fail: on error Main returns that
\* error, otherwise it goes on at next
\* CallThen with the error of the call not looked at
CallThenGoOn(ev, e, next) ==
    /\ trace' = Append(trace, ev)
    /\ pc' = next
    /\ UNCHANGED result

CallThen(ev, e, next) ==
    /\ trace' = Append(trace, ev)
    /\ IF e # "nil"
       THEN Return(ErrValue(e))
       ELSE /\ pc' = next
            /\ UNCHANGED result

CallHook(e) ==
    /\ pc = "Hook"
    /\ CallThen(HookEv(e), e, "source")
    /\ UNCHANGED <<args, euid, startVars, stopVars>>

SourceEtcGoesd(staterr, e) ==
    /\ pc = "source"
    /\ IF staterr = "nil"
       THEN /\ trace' = trace \o <<StatFileEv(EtcGoesd, staterr),
                                   MainEv("source", <<EtcGoesd>>, e)>>
            /\ IF e # "nil"
               THEN Return(ErrValue(e))
               ELSE /\ pc' = "redisd"
                    /\ UNCHANGED result
       ELSE /\ trace' = Append(trace, StatFileEv(EtcGoesd, staterr))
            /\ pc' = "redisd"
            /\ UNCHANGED result
    /\ UNCHANGED <<args, euid, startVars, stopVars>>

\* LaunchWithEnv handing on the first field only
LaunchWithEnvFirst(at, var, name, value, e, next) ==
    /\ pc = at
    /\ LET a == Fields(value)
           argv == IF Len(a) > 0 THEN <<a[1]>> ELSE <<>>
       IN  /\ trace' = trace \o <<GetenvEv(var, value), MainEv(name, argv, e)>>
           /\ IF e # "nil"
              THEN Return(ErrValue(e))
              ELSE /\ pc' = next
                   /\ UNCHANGED result
    /\ UNCHANGED <<args, euid, startVars, stopVars>>

\* lines 67-75 with var = "REDISD", lines 76-84 with var = "MACHINED"
LaunchWithEnv(at, var, name, value, e, next) ==
    /\ pc = at
    /\ LET a == Fields(value)
           argv == IF Len(a) > 0 THEN a ELSE <<>>
       IN  /\ trace' = trace \o <<GetenvEv(var, value), MainEv(name, argv, e)>>
           /\ IF e # "nil"
              THEN Return(ErrValue(e))
              ELSE /\ pc' = next
                   /\ UNCHANGED result
    /\ UNCHANGED <<args, euid, startVars, stopVars>>

\* LaunchRedisd going on at the range loop, lines 76-84 left out
LaunchRedisdOnly(value, e) ==
    LaunchWithEnv("redisd", "REDISD", "redisd", value, e, "range")

LaunchRedisd(value, e) ==
    LaunchWithEnv("redisd", "REDISD", "redisd", value, e, "machined")

LaunchMachined(value, e) ==
    LaunchWithEnv("machined", "MACHINED", "machined", value, e, "range")

(***************************************************************************)
(* Main, lines 85-94: range over command.Daemon.  Go leaves the order in   *)
(* which range produces the keys of a map unspecified, so each iteration   *)
(* takes any key not produced yet.                                         *)
(***************************************************************************)
Names == {DaemonNames[i] : i \in 1..MaxDaemons}
Registries == UNION {[S -> Levels] : S \in SUBSET Names}
NoDaemons == [n \in {} |-> 0]

RangeDaemon ==
    /\ pc = "range"
    /\ \E reg \in Registries :
          /\ Daemon' = reg
          /\ todo' = DOMAIN reg
    /\ pc' = "iter"
    /\ UNCHANGED <<args, euid, result, trace, stopVars>>

\* RangeNext with the test of line 86 left out
RangeNextAll(daemon, e) ==
    /\ pc = "iter"
    /\ daemon \in todo
    /\ todo' = todo \ {daemon}
    /\ CallThen(MainEv(daemon, <<>>, e), e, "iter")
    /\ UNCHANGED <<args, euid, Daemon, stopVars>>

\* RangeNext with lvl <= 0 for the test of line 86
RangeNextPositive(daemon, e) ==
    /\ pc = "iter"
    /\ daemon \in todo
    /\ todo' = todo \ {daemon}
    /\ LET lvl == Daemon[daemon]
       IN  IF lvl <= 0
           THEN UNCHANGED <<pc, result, trace>>
           ELSE CallThen(MainEv(daemon, <<>>, e), e, "iter")
    /\ UNCHANGED <<args, euid, Daemon, stopVars>>

RangeNext(daemon, e) ==
    /\ pc = "iter"
    /\ daemon \in todo
    /\ todo' = todo \ {daemon}
    /\ LET lvl == Daemon[daemon]
       IN  IF lvl < 0
           THEN UNCHANGED <<pc, result, trace>>
           ELSE CallThen(MainEv(daemon, <<>>, e), e, "iter")
    /\ UNCHANGED <<args, euid, Daemon, stopVars>>

RangeEnd ==
    /\ pc = "iter"
    /\ todo = {}
    /\ Return(Nil)
    /\ UNCHANGED <<args, euid, trace, startVars, stopVars>>

(***************************************************************************)
(* /proc as stop reads it.  Paths are sequences of characters.             *)
(***************************************************************************)
Digits == <<"0", "1", "2", "3", "4", "5", "6", "7", "8", "9">>
\* the characters of the paths below, in byte order
Alphabet == <<"-", "/", "0", "1", "2", "3", "4", "5", "6", "7", "8", "9",
              "a", "c", "d", "e", "f", "h", "l", "o", "p", "r", "s", "t", "x">>
ProcDir == <<"/", "p", "r", "o", "c", "/">>
ExeSuffix == <<"/", "e", "x", "e">>
StatSuffix == <<"/", "s", "t", "a", "t">>
Self == <<"s", "e", "l", "f">>
ThreadSelf == <<"t", "h", "r", "e", "a", "d", "-", "s", "e", "l", "f">>

IsDigit(c) == \E d \in 1..Len(Digits) : Digits[d] = c
DigitVal(c) == (CHOOSE d \in 1..Len(Digits) : Digits[d] = c) - 1
Rank(c) == CHOOSE i \in 1..Len(Alphabet) : Alphabet[i] = c

RECURSIVE Itoa(_)
Itoa(n) == IF n < Len(Digits)
           THEN <<Digits[n + 1]>>
           ELSE Itoa(n \div Len(Digits)) \o <<Digits[(n % Len(Digits)) + 1]>>

\* fmt.Sprint("/proc/", pid, "/stat")
Sprint(pid) == ProcDir \o Itoa(pid) \o StatSuffix
ExePath(name) == ProcDir \o name \o ExeSuffix

HasPrefix(s, pre) == /\ Len(s) >= Len(pre)
                     /\ SubSeq(s, 1, Len(pre)) = pre
HasSuffix(s, suf) == /\ Len(s) >= Len(suf)
                     /\ SubSeq(s, Len(s) - Len(suf) + 1, Len(s)) = suf
TrimPrefix(s, pre) == IF HasPrefix(s, pre) THEN SubSeq(s, Len(pre) + 1, Len(s)) ELSE s
TrimSuffix(s, suf) == IF HasSuffix(s, suf) THEN SubSeq(s, 1, Len(s) - Len(suf)) ELSE s

\* fmt.Sscan(spid, &pid) into pid = 0: the leading decimal digits of spid, and
\* pid is left 0 when spid does not start with a digit
RECURSIVE ScanDigits(_, _, _)
ScanDigits(s, i, acc) ==
    IF i <= Len(s) /\ IsDigit(s[i])
    THEN ScanDigits(s, i + 1, acc * Len(Digits) + DigitVal(s[i]))
    ELSE acc

Sscan(s) == ScanDigits(s, 1, 0)

RECURSIVE LexLess(_, _)
LexLess(a, b) ==
    IF Len(a) = 0 THEN Len(b) > 0
    ELSE IF Len(b) = 0 THEN FALSE
    ELSE IF a[1] # b[1] THEN Rank(a[1]) < Rank(b[1])
    ELSE LexLess(Tail(a), Tail(b))

RECURSIVE Sorted(_)
Sorted(S) ==
    IF S = {} THEN <<>>
    ELSE LET m == CHOOSE x \in S : \A y \in S \ {x} : LexLess(x, y)
         IN  <<m>> \o Sorted(S \ {m})

\* the directories of /proc that hold an exe link
ProcEntries(table) ==
    {Itoa(p) : p \in {q \in Pids : table[q] # NoProc}} \cup {Self, ThreadSelf}

\* filepath.Glob("/proc/*/exe"): the matches, in the order of the sorted
\* directory names
Glob(table) ==
    LET names == Sorted(ProcEntries(table))
    IN  [i \in 1..Len(names) |-> ExePath(names[i])]

\* os.Readlink of an exe link: the image of the process, NoProc on error
Readlink(table, me, path) ==
    IF \E p \in Pids : table[p] # NoProc /\ path = ExePath(Itoa(p))
    THEN table[CHOOSE p \in Pids : path = ExePath(Itoa(p))]
    ELSE IF path \in {ExePath(Self), ExePath(ThreadSelf)}
         THEN table[me]
         ELSE NoProc

\* StatOk looking at /proc only, which is always there
StatOkAlways(table, path) == TRUE

\* StatOk on a /proc that holds an entry for pid 0
StatOkZero(table, path) ==
    \/ path = Sprint(0)
    \/ \E p \in Pids : table[p] # NoProc /\ path = Sprint(p)

\* os.Stat of /proc/<pid>/stat succeeds
StatOk(table, path) ==
    \E p \in Pids : table[p] # NoProc /\ path = Sprint(p)

(***************************************************************************)
(* stop, lines 97-137                                                      *)
(***************************************************************************)
SelfExe == ExePath(Self)
GraceSeconds == 2

ReadlinkEv(path, res) == Ev("Readlink", "", <<>>, path, -1, "", res)
GlobEv == Ev("Glob", "", <<>>, ExePath(<<"*">>), -1, "", "nil")
StatEv(path, res) == Ev("Stat", "", <<>>, path, -1, "", res)
KillEv(pid, sig) == Ev("Kill", "", <<>>, <<>>, pid, sig, "")
SleepEv(seconds) == Ev("Sleep", "", <<>>, <<>>, seconds, "", "")
RemoveAllEv(pkg, res) == Ev("RemoveAll", pkg, <<>>, <<>>, -1, "", res)

\* the process tables stop may find: the caller runs the supervisor's image
ProcTables(me) == {t \in [Pids -> Images \cup {NoProc}] : t[me] = GoesdExe}

\* lines 98-102
\* StopSelf with the test of line 99 left out
StopSelfGoOn ==
    /\ pc = "stop"
    /\ \E me \in ThisPids, e \in {"nil", "ENOENT"} : \E table \in ProcTables(me) :
          /\ proc' = table
          /\ sibling' = \E p \in Pids \ {me} : table[p] = GoesdExe
          /\ trace' = Append(trace, ReadlinkEv(SelfExe,
                                               IF e = "nil" THEN table[me] ELSE e))
          /\ thisprog' = IF e = "nil" THEN Readlink(table, me, SelfExe) ELSE ""
          /\ thispid' = me
          /\ pc' = "Glob"
          /\ UNCHANGED result
    /\ UNCHANGED <<args, euid, startVars, exes, pids, idx>>

StopSelf ==
    /\ pc = "stop"
    /\ \E me \in ThisPids, e \in {"nil", "ENOENT"} : \E table \in ProcTables(me) :
          /\ proc' = table
          /\ sibling' = \E p \in Pids \ {me} : table[p] = GoesdExe
          /\ trace' = Append(trace, ReadlinkEv(SelfExe,
                                               IF e = "nil" THEN table[me] ELSE e))
          /\ IF e # "nil"
             THEN /\ Return(ErrValue(e))
                  /\ UNCHANGED <<thisprog, thispid>>
             ELSE /\ thisprog' = Readlink(table, me, SelfExe)
                  /\ thispid' = me
                  /\ pc' = "Glob"
                  /\ UNCHANGED result
    /\ UNCHANGED <<args, euid, startVars, exes, pids, idx>>

\* lines 103-107; Glob fails on a malformed pattern only, so err is nil here
StopGlob ==
    /\ pc = "Glob"
    /\ exes' = Glob(proc)
    /\ trace' = Append(trace, GlobEv)
    /\ pids' = <<>>
    /\ idx' = 1
    /\ pc' = "scan"
    /\ UNCHANGED <<sibling, args, euid, result, startVars, proc, thisprog, thispid>>

\* lines 108-120, one iteration; the loop's end leads to line 121
ScanPid(exe) == Sscan(TrimPrefix(TrimSuffix(exe, ExeSuffix), ProcDir))

\* StopScan with the test of line 117 left out
StopScanAll ==
    /\ pc = "scan"
    /\ IF idx > Len(exes)
       THEN /\ pc' = "term"
            /\ idx' = 1
            /\ UNCHANGED <<trace, pids>>
       ELSE LET exe == exes[idx]
                prog == Readlink(proc, thispid, exe)
                pid == ScanPid(exe)
            IN  /\ trace' = Append(trace, ReadlinkEv(exe, prog))
                /\ idx' = idx + 1
                /\ pc' = "scan"
                /\ IF prog = NoProc \/ prog # thisprog
                   THEN UNCHANGED pids
                   ELSE pids' = Append(pids, pid)
    /\ UNCHANGED <<sibling, args, euid, result, startVars, proc, thisprog, thispid, exes>>

StopScan ==
    /\ pc = "scan"
    /\ IF idx > Len(exes)
       THEN /\ pc' = "term"
            /\ idx' = 1
            /\ UNCHANGED <<trace, pids>>
       ELSE LET exe == exes[idx]
                prog == Readlink(proc, thispid, exe)
                pid == ScanPid(exe)
            IN  /\ trace' = Append(trace, ReadlinkEv(exe, prog))
                /\ idx' = idx + 1
                /\ pc' = "scan"
                /\ IF prog = NoProc \/ prog # thisprog
                   THEN UNCHANGED pids
                   ELSE IF pid # thispid
                        THEN pids' = Append(pids, pid)
                        ELSE UNCHANGED pids
    /\ UNCHANGED <<sibling, args, euid, result, startVars, proc, thisprog, thispid, exes>>

\* os.Stat at the head of an iteration over pids (lines 122-123, 129-130);
\* the loop's end leads to after
StatPass(at, send, after) ==
    /\ pc = at
    /\ IF idx > Len(pids)
       THEN /\ pc' = after
            /\ idx' = 1
            /\ UNCHANGED trace
       ELSE LET path == Sprint(pids[idx])
                ok == StatOk(proc, path)
            IN  /\ trace' = Append(trace, StatEv(path, IF ok THEN "nil" ELSE "ENOENT"))
                /\ IF ok
                   THEN /\ pc' = send
                        /\ UNCHANGED idx
                   ELSE /\ pc' = at
                        /\ idx' = idx + 1
    /\ UNCHANGED <<sibling, args, euid, result, startVars, proc, thisprog, thispid, exes, pids>>

\* syscall.Kill of the pid just found alive (lines 124, 131); its result is
\* not looked at
KillPass(at, sig, back) ==
    /\ pc = at
    /\ trace' = Append(trace, KillEv(pids[idx], sig))
    /\ idx' = idx + 1
    /\ pc' = back
    /\ UNCHANGED <<sibling, args, euid, result, startVars, proc, thisprog, thispid, exes, pids>>

TermStat == StatPass("term", "term-kill", "sleep")

\* TermKill sending the signal of line 131
TermKillForce == KillPass("term-kill", "SIGKILL", "term")

TermKill == KillPass("term-kill", "SIGTERM", "term")

\* Sleep going on at line 134, the pass of lines 128-133 left out
SleepThenReclaim ==
    /\ pc = "sleep"
    /\ trace' = Append(trace, SleepEv(GraceSeconds))
    /\ pc' = "reclaim"
    /\ UNCHANGED <<args, euid, result, startVars, stopVars>>

\* line 127
Sleep ==
    /\ pc = "sleep"
    /\ trace' = Append(trace, SleepEv(GraceSeconds))
    /\ pc' = "kill"
    /\ UNCHANGED <<args, euid, result, startVars, stopVars>>

\* KillStat with the test of line 130 left out
KillStatBlind ==
    /\ pc = "kill"
    /\ IF idx > Len(pids)
       THEN /\ pc' = "reclaim"
            /\ idx' = 1
            /\ UNCHANGED trace
       ELSE LET path == Sprint(pids[idx])
                ok == StatOk(proc, path)
            IN  /\ trace' = Append(trace, StatEv(path, IF ok THEN "nil" ELSE "ENOENT"))
                /\ pc' = "kill-kill"
                /\ UNCHANGED idx
    /\ UNCHANGED <<sibling, args, euid, result, startVars, proc, thisprog, thispid, exes, pids>>

\* KillKill going on only once the process is gone
KillKillWait ==
    /\ pc = "kill-kill"
    /\ proc[pids[idx]] = NoProc
    /\ KillPass("kill-kill", "SIGKILL", "kill")

KillStat == StatPass("kill", "kill-kill", "reclaim")
KillKill == KillPass("kill-kill", "SIGKILL", "kill")

\* lines 134-136; what the two RemoveAll return is dropped
Reclaim(esock, epid) ==
    /\ pc = "reclaim"
    /\ trace' = trace \o <<RemoveAllEv("sockfile", esock), RemoveAllEv("pidfile", epid)>>
    /\ Return(Nil)
    /\ UNCHANGED <<args, euid, startVars, stopVars>>

(***************************************************************************)
(* The other processes of the host while stop runs: any of them may exit,  *)
(* signalled or not, and a free pid may be given to a new process.         *)
(***************************************************************************)
StopPcs == {"Glob", "scan", "term", "term-kill", "sleep", "kill", "kill-kill"}

ProcExit(p) ==
    /\ pc \in StopPcs
    /\ p # thispid
    /\ proc[p] # NoProc
    /\ proc' = [proc EXCEPT ![p] = NoProc]
    /\ UNCHANGED <<sibling, pc, args, euid, result, trace, startVars, thisprog, thispid,
                   exes, pids, idx>>

ProcStart(p, image) ==
    /\ pc \in StopPcs
    /\ proc[p] = NoProc
    /\ proc' = [proc EXCEPT ![p] = image]
    /\ sibling' = (sibling \/ image = thisprog)
    /\ UNCHANGED <<pc, args, euid, result, trace, startVars, thisprog, thispid,
                   exes, pids, idx>>

Init ==
    /\ pc = "Main"
    /\ args = <<>>
    /\ euid = 0
    /\ result = Running
    /\ trace = <<>>
    /\ Daemon = NoDaemons
    /\ todo = {}
    /\ proc = [p \in Pids |-> NoProc]
    /\ thisprog = ""
    /\ thispid = 0
    /\ exes = <<>>
    /\ pids = <<>>
    /\ idx = 0
    /\ sibling = FALSE

Next ==
    \/ \E a \in ArgLists, uid \in Euids : Main(a, uid)
    \/ \E e \in CallErrs \cup {"nil"} : CallHook(e)
    \/ \E staterr \in {"nil", "ENOENT"}, e \in CallErrs \cup {"nil"} :
          SourceEtcGoesd(staterr, e)
    \/ \E value \in EnvValues, e \in CallErrs \cup {"nil"} : LaunchRedisd(value, e)
    \/ \E value \in EnvValues, e \in CallErrs \cup {"nil"} : LaunchMachined(value, e)
    \/ RangeDaemon
    \/ \E daemon \in Names, e \in CallErrs \cup {"nil"} : RangeNext(daemon, e)
    \/ RangeEnd
    \/ StopSelf
    \/ StopGlob
    \/ StopScan
    \/ TermStat
    \/ TermKill
    \/ Sleep
    \/ KillStat
    \/ KillKill
    \/ \E esock \in RemoveErrs \cup {"nil"}, epid \in RemoveErrs \cup {"nil"} :
          Reclaim(esock, epid)
    \/ \E p \in Pids : ProcExit(p)
    \/ \E p \in Pids, image \in Images : ProcStart(p, image)

Spec == Init /\ [][Next]_vars

(***************************************************************************)
(* Properties                                                              *)
(***************************************************************************)
Started == pc # "Main"
Done == pc = "done"
StartupPath == Started /\ euid = 0 /\ args = <<>>
StopPath == Started /\ euid = 0 /\ Len(args) > 0 /\ args[1] = "stop"

Indexes == 1..Len(trace)
\* the items of the startup sequence that have been attempted, in order
IsItem(ev) == ev.op \in {"Hook", "command.Main"}
Items == SelectSeq(trace, IsItem)
IsLaunch(ev) == ev.op = "command.Main" /\ ev.name # "source"
Launches == SelectSeq(trace, IsLaunch)
IsAux(ev) == IsLaunch(ev) /\ ev.name \notin {"redisd", "machined"}
AuxLaunches == SelectSeq(trace, IsAux)
ItemKey(ev) == <<ev.op, ev.name>>
Count(seq, key) == Cardinality({i \in 1..Len(seq) : ItemKey(seq[i]) = key})
Enabled == {d \in DOMAIN Daemon : Daemon[d] >= 0}

\* C1: when the effective uid is not 0, Main returns ErrNotRoot whatever its
\* arguments and does nothing else: no call to any collaborator is made and
\* neither the registry nor the process table is read.
PrivilegeGate ==
    (Started /\ euid # 0) =>
        /\ Done
        /\ result = ErrNotRoot
        /\ trace = <<>>
        /\ Daemon = NoDaemons /\ todo = {}
        /\ thispid = 0 /\ exes = <<>> /\ pids = <<>>

PrivilegeGateWitness ==
    /\ Done
    /\ euid # 0
    /\ args = <<"stop", "now">>
    /\ result = ErrNotRoot

\* the fixed items that come before an item in the startup sequence
Before(ev) ==
    IF ev.op = "Hook" THEN {}
    ELSE IF ev.name = "source" THEN {<<"Hook", "">>}
    ELSE IF ev.name = "redisd" THEN {<<"Hook", "">>}
    ELSE IF ev.name = "machined" THEN {<<"Hook", "">>, <<"command.Main", "redisd">>}
    ELSE {<<"Hook", "">>, <<"command.Main", "redisd">>, <<"command.Main", "machined">>}

\* C2: on the startup path, an item that failed is the last one attempted
\* (Main has returned its error), no item is attempted twice, and every item
\* that comes before an attempted one has been attempted exactly once.
AbortOnFailure ==
    StartupPath =>
        LET items == Items
        IN  /\ \A i \in 1..Len(items) :
                  /\ items[i].res # "nil" =>
                        /\ i = Len(items)
                        /\ Done
                        /\ result = CallErr(items[i].res)
                  /\ Count(items, ItemKey(items[i])) = 1
                  /\ \A key \in Before(items[i]) :
                        Cardinality({j \in 1..(i - 1) : ItemKey(items[j]) = key}) = 1
            /\ \A i \in Indexes :
                  (IsItem(trace[i]) /\ trace[i].res # "nil") => i = Len(trace)

\* an auxiliary launch failed after another had succeeded, and an enabled
\* daemon was still to come
AbortOnFailureWitness ==
    /\ StartupPath
    /\ Done
    /\ Len(AuxLaunches) >= 2
    /\ AuxLaunches[Len(AuxLaunches)].res # "nil"
    /\ \E d \in todo : Daemon[d] >= 0

\* the enabled daemons in the order they were registered
RECURSIVE RegistrationOrder(_)
RegistrationOrder(i) ==
    IF i > Len(DaemonNames) THEN <<>>
    ELSE (IF DaemonNames[i] \in Enabled THEN <<DaemonNames[i]>> ELSE <<>>)
         \o RegistrationOrder(i + 1)

\* C3: a startup that succeeds has launched the enabled auxiliary daemons in
\* the order of their registration, the same in every run.
LaunchOrderIsRegistrationOrder ==
    (StartupPath /\ Done /\ result = Nil) =>
        [i \in 1..Len(AuxLaunches) |-> AuxLaunches[i].name] = RegistrationOrder(1)

\* the place of an item in the startup sequence
Stage(ev) ==
    IF ev.op = "Hook" THEN 1
    ELSE IF ev.name = "source" THEN 2
    ELSE IF ev.name = "redisd" THEN 3
    ELSE IF ev.name = "machined" THEN 4
    ELSE 5

\* C4: on the startup path the items are attempted in one order: Hook, then
\* the sourcing of /etc/goesd (only right after os.Stat found the file), then
\* redisd, then machined, then the auxiliary daemons; each item is attempted
\* only after Hook, and an auxiliary daemon only after redisd and machined
\* have both returned without error.
StartupOrder ==
    StartupPath =>
        LET items == Items
        IN  /\ \A j \in 1..Len(items) :
                  /\ items[1].op = "Hook"
                  /\ \A i \in 1..(j - 1) :
                        /\ Stage(items[i]) <= Stage(items[j])
                        /\ Stage(items[i]) = Stage(items[j]) => IsAux(items[i])
                  /\ Stage(items[j]) >= 4 =>
                        \E i \in 1..(j - 1) :
                            items[i].name = "redisd" /\ items[i].res = "nil"
                  /\ Stage(items[j]) = 5 =>
                        \E i \in 1..(j - 1) :
                            items[i].name = "machined" /\ items[i].res = "nil"
            /\ \A i \in Indexes :
                  (trace[i].op = "command.Main" /\ trace[i].name = "source") =>
                      /\ i > 1
                      /\ trace[i - 1] = StatFileEv(EtcGoesd, "nil")

\* /etc/goesd was sourced and two auxiliary daemons were launched
StartupOrderWitness ==
    /\ StartupPath
    /\ Done
    /\ result = Nil
    /\ \E i \in 1..Len(Items) : Items[i].name = "source"
    /\ Len(AuxLaunches) >= 2

\* C5: the startup path never launches a daemon registered with a negative
\* level, wherever the range loop produces it and whatever the other
\* launches return.
NegativeNeverLaunched ==
    \A i \in Indexes :
        (IsAux(trace[i]) /\ trace[i].name \in DOMAIN Daemon) =>
            Daemon[trace[i].name] >= 0

\* the loop has gone past a daemon of negative level and has launched two
\* others
NegativeNeverLaunchedWitness ==
    /\ StartupPath
    /\ Done
    /\ Len(AuxLaunches) >= 2
    /\ \E d \in DOMAIN Daemon : Daemon[d] < 0 /\ d \notin todo

\* C6: when the startup path returns nil, redisd, machined and every
\* registered daemon of level >= 0 have been launched exactly once and
\* nothing else has been launched.
AllEnabledOnce ==
    (StartupPath /\ Done /\ result = Nil) =>
        /\ \A n \in {"redisd", "machined"} \cup Enabled :
              Count(Launches, <<"command.Main", n>>) = 1
        /\ Len(Launches) = 2 + Cardinality(Enabled)

\* a success with daemons of level 0, of level 1 and of negative level
AllEnabledOnceWitness ==
    /\ StartupPath
    /\ Done
    /\ result = Nil
    /\ \E d \in DOMAIN Daemon : Daemon[d] = 0
    /\ \E d \in DOMAIN Daemon : Daemon[d] > 0
    /\ \E d \in DOMAIN Daemon : Daemon[d] < 0

IsKill(ev, sig) == ev.op = "Kill" /\ ev.sig = sig
IsSleep(ev) == ev.op = "Sleep"
IsProcStat(ev) == ev.op = "Stat" /\ ev.name = ""
Sleeps == {i \in Indexes : IsSleep(trace[i])}
StatsBefore(i) == {j \in 1..(i - 1) : IsProcStat(trace[j])}
StatsAfter(i) == {j \in (i + 1)..Len(trace) : IsProcStat(trace[j])}
KillsTo(pid, sig) == {i \in Indexes : IsKill(trace[i], sig) /\ trace[i].pid = pid}

\* C7: stop sleeps at most once, for 2 seconds, and only when the graceful
\* pass has looked at every pid of pids; every SIGKILL is sent after that
\* sleep and every SIGTERM before it.
EscalationOrder ==
    LET sleeps == Sleeps
    IN  /\ Cardinality(sleeps) <= 1
        /\ \A s \in sleeps :
              /\ trace[s] = SleepEv(GraceSeconds)
              /\ Cardinality(StatsBefore(s)) = Len(pids)
        /\ \A i \in Indexes :
              trace[i].op = "Kill" =>
                  /\ trace[i].sig \in {"SIGTERM", "SIGKILL"}
                  /\ trace[i].sig = "SIGKILL" => \E s \in sleeps : s < i
                  /\ trace[i].sig = "SIGTERM" => \A s \in sleeps : i < s

\* a process was sent SIGTERM and, after the sleep, SIGKILL
EscalationOrderWitness ==
    /\ StopPath
    /\ Done
    /\ \E p \in Pids : KillsTo(p, "SIGTERM") # {} /\ KillsTo(p, "SIGKILL") # {}

\* C8: SIGKILL goes exactly to the pids of pids that os.Stat finds alive
\* after the sleep: every SIGKILL follows at once a successful os.Stat of
\* that pid made after the sleep, every such os.Stat is followed by the
\* SIGKILL of that pid, no pid is sent SIGKILL twice, and the pass looks at
\* every pid of pids, in order.
ForcefulExactlySurvivors ==
    /\ \A i \in Indexes :
          IsKill(trace[i], "SIGKILL") =>
              /\ i > 1
              /\ trace[i - 1] = StatEv(Sprint(trace[i].pid), "nil")
              /\ \E k \in 1..Len(pids) : pids[k] = trace[i].pid
              /\ \A j \in 1..(i - 1) : trace[j] # trace[i]
    /\ \A s \in Sleeps :
          LET after == StatsAfter(s)
          IN  /\ \A j \in after :
                    /\ trace[j].res = "nil" =>
                          IF j = Len(trace)
                          THEN pc = "kill-kill"
                          ELSE /\ IsKill(trace[j + 1], "SIGKILL")
                               /\ trace[j].path = Sprint(trace[j + 1].pid)
                    /\ trace[j].res # "nil" =>
                          (j < Len(trace) => ~IsKill(trace[j + 1], "SIGKILL"))
                    /\ LET k == Cardinality({h \in after : h <= j})
                       IN  k <= Len(pids) /\ trace[j].path = Sprint(pids[k])
              /\ pc \in {"reclaim", "done"} => Cardinality(after) = Len(pids)

\* two siblings were sent SIGTERM; one is gone at the second os.Stat and
\* gets nothing more, the other gets the only SIGKILL
ForcefulExactlySurvivorsWitness ==
    /\ StopPath
    /\ Done
    /\ \E p \in Pids : \E q \in Pids \ {p} :
          /\ KillsTo(p, "SIGTERM") # {} /\ KillsTo(q, "SIGTERM") # {}
          /\ KillsTo(p, "SIGKILL") = {} /\ Cardinality(KillsTo(q, "SIGKILL")) = 1
          /\ \E s \in Sleeps : \E j \in StatsAfter(s) : trace[j] = StatEv(Sprint(p), "ENOENT")
    /\ Cardinality({i \in Indexes : IsKill(trace[i], "SIGKILL")}) = 1

NoKill == \A i \in Indexes : trace[i].op # "Kill"
Reclaimed ==
    /\ \E i \in Indexes : trace[i].op = "RemoveAll" /\ trace[i].name = "sockfile"
    /\ \E i \in Indexes : trace[i].op = "RemoveAll" /\ trace[i].name = "pidfile"

\* C9 as claimed: a stop during which no other process runs the caller's
\* image sends no signal, calls both RemoveAll and returns nil.
StopWithoutSiblings ==
    (StopPath /\ Done /\ ~sibling) =>
        /\ NoKill
        /\ Reclaimed
        /\ result = Nil

\* C9: a stop that resolved /proc/self/exe, and during which no other
\* process runs the caller's image, sends no signal, calls both RemoveAll and
\* returns nil.
StopWithoutSiblingsResolved ==
    (StopPath /\ Done /\ ~sibling /\ trace[1] = ReadlinkEv(SelfExe, GoesdExe)) =>
        /\ NoKill
        /\ Reclaimed
        /\ result = Nil

\* the scan found only the caller's own links, with another, unrelated
\* process on the host
StopWithoutSiblingsWitness ==
    /\ StopPath
    /\ Done
    /\ ~sibling
    /\ result = Nil
    /\ Len(pids) > 0
    /\ \E i \in Indexes : trace[i].op = "Readlink" /\ trace[i].res = OtherExe

\* C10: pids never holds the caller's own pid.
SiblingExclusivity ==
    \A k \in 1..Len(pids) : pids[k] # thispid

\* the scan is over: it resolved /proc/<thispid>/exe to the caller's own
\* image and put another pid in pids
SiblingExclusivityWitness ==
    /\ StopPath
    /\ pc = "term"
    /\ \E i \in Indexes : trace[i] = ReadlinkEv(ExePath(Itoa(thispid)), thisprog)
    /\ \E k \in 1..Len(pids) : pids[k] \in Pids

\* C11: as root, a non-empty argument list whose first element is not
\* "stop" makes Main return at once the error that names these arguments;
\* no collaborator is called (no Hook, launch, link resolution, enumeration,
\* signal, sleep or removal) and neither the registry nor the process table
\* is read.
UnexpectedArguments ==
    (Started /\ euid = 0 /\ Len(args) > 0 /\ args[1] # "stop") =>
        /\ Done
        /\ result = Unexpected(args)
        /\ result.args = args
        /\ trace = <<>>
        /\ Daemon = NoDaemons /\ todo = {}
        /\ thispid = 0 /\ exes = <<>> /\ pids = <<>>
        /\ \A p \in Pids : proc[p] = NoProc

\* the rejected list holds "stop", but not first
UnexpectedArgumentsWitness ==
    /\ Done
    /\ euid = 0
    /\ args = <<"now", "stop">>
    /\ result = Unexpected(<<"now", "stop">>)


IsDiscovery(ev) == ev.op \in {"Readlink", "Glob"}
DiscoveryFailed(ev) ==
    \/ ev.op = "Readlink" /\ ev.path = SelfExe /\ ev.res \notin Images
    \/ ev.op = "Glob" /\ ev.res # "nil"

\* C12: stop begins with the resolution of /proc/self/exe and goes on with
\* the enumeration of /proc/*/exe; when one of the two fails, stop returns
\* that error and the failed call is the last thing it did: no signal has
\* been sent, no sleep taken and no RemoveAll called.  Whatever stop does
\* beyond discovery comes after both have succeeded.
DiscoveryFailureAborts ==
    StopPath =>
        /\ \A i \in Indexes :
              /\ (i = 1) => (trace[i].op = "Readlink" /\ trace[i].path = SelfExe)
              /\ (i = 2) => trace[i].op = "Glob"
              /\ DiscoveryFailed(trace[i]) =>
                    /\ i = Len(trace)
                    /\ Done
                    /\ result = CallErr(trace[i].res)
                    /\ \A j \in Indexes : IsDiscovery(trace[j])
              /\ ~IsDiscovery(trace[i]) =>
                    /\ i > 2
                    /\ trace[1].res \in Images
                    /\ trace[2].res = "nil"
        /\ (Done /\ result # Nil) => DiscoveryFailed(trace[Len(trace)])

\* /proc/self/exe did not resolve while a sibling was running
DiscoveryFailureAbortsWitness ==
    /\ StopPath
    /\ Done
    /\ trace = <<ReadlinkEv(SelfExe, "ENOENT")>>
    /\ result = CallErr("ENOENT")
    /\ \E p \in Pids \ ThisPids : proc[p] = GoesdExe


RemoveAllFailed == \E i \in Indexes : trace[i].op = "RemoveAll" /\ trace[i].res # "nil"

\* C13: a stop in which sockfile.RemoveAll or pidfile.RemoveAll met an
\* error does not return nil: the error of the removal is what Main
\* returns.
ReclaimFailureSurfaced ==
    (StopPath /\ Done /\ RemoveAllFailed) =>
        /\ result # Nil
        /\ \E i \in Indexes :
              /\ trace[i].op = "RemoveAll"
              /\ result = CallErr(trace[i].res)


StartupOps == {"Hook", "Stat", "Getenv", "command.Main"}

\* C14: when the startup path returns an error, that error is the very
\* value the first failing item (Hook, the sourcing of /etc/goesd, redisd,
\* machined or an auxiliary daemon) returned, every item before it returned
\* nil, and the failing call is the last thing Main did.  The startup path
\* never stops, signals or removes anything: daemons already launched are
\* left as they are.
FirstErrorUnchanged ==
    StartupPath =>
        LET items == Items
            n == Len(items)
        IN  /\ (Done /\ result # Nil) =>
                  /\ n > 0
                  /\ trace[Len(trace)] = items[n]
                  /\ items[n].res \in CallErrs
                  /\ result = CallErr(items[n].res)
                  /\ \A i \in 1..(n - 1) : items[i].res = "nil"
            /\ (Done /\ result = Nil) => \A i \in 1..n : items[i].res = "nil"
            /\ \A i \in Indexes :
                  /\ trace[i].op \in StartupOps
                  /\ trace[i].op = "Stat" => trace[i].name = EtcGoesd
                  /\ trace[i].op = "command.Main" => trace[i].name # "stop"
            /\ thispid = 0 /\ exes = <<>> /\ pids = <<>>

\* machined failed after redisd and /etc/goesd had gone well
FirstErrorUnchangedWitness ==
    /\ StartupPath
    /\ Done
    /\ result = CallErr("E2")
    /\ \E i \in Indexes : trace[i] = MainEv("source", <<EtcGoesd>>, "nil")
    /\ \E i \in Indexes : IsLaunch(trace[i]) /\ trace[i].name = "redisd" /\ trace[i].res = "nil"
    /\ trace[Len(trace)].name = "machined"
    /\ trace[Len(trace)].res = "E2"


\* the tokens of a value, said without strings.Fields: a token begins at
\* every character that is not white space and follows white space or
\* nothing, and runs up to the next white space
TokenStarts(v) ==
    {i \in 1..Len(v) : ~IsSpace(v[i]) /\ (i = 1 \/ IsSpace(v[i - 1]))}
TokenEnd(v, i) ==
    CHOOSE j \in i..Len(v) :
        /\ \A k \in i..j : ~IsSpace(v[k])
        /\ j = Len(v) \/ IsSpace(v[j + 1])
RECURSIVE Join(_)
Join(chars) == IF chars = <<>> THEN "" ELSE Head(chars) \o Join(Tail(chars))
IsTokens(v, argv) ==
    LET starts == TokenStarts(v)
    IN  /\ Len(argv) = Cardinality(starts)
        /\ \A i \in starts :
              LET k == Cardinality({h \in starts : h <= i})
              IN  argv[k] = Join(SubSeq(v, i, TokenEnd(v, i)))
EnvOf(name) == IF name = "redisd" THEN "REDISD" ELSE "MACHINED"
BindValue == <<"-", "-", "b", "i", "n", "d", " ", "1", "2", "7", ".", "0", ".",
               "0", ".", "1">>

\* C15: redisd is launched with exactly the white-space separated tokens of
\* REDISD, in order, and machined with those of MACHINED: each of the two is
\* launched right after its own variable was read, with the tokens of the
\* value read then and nothing else (no arguments for a value that is empty
\* or white space only); every other launch gets no argument, and no other
\* variable is read.  "--bind 127.0.0.1" gives the two arguments "--bind"
\* and "127.0.0.1".
ExactOverride ==
    /\ Fields(BindValue) = <<"--bind", "127.0.0.1">>
    /\ StartupPath =>
          \A i \in Indexes :
              LET ev == trace[i]
              IN  /\ (IsLaunch(ev) /\ ~IsAux(ev)) =>
                        /\ i > 1
                        /\ trace[i - 1].op = "Getenv"
                        /\ trace[i - 1].name = EnvOf(ev.name)
                        /\ IsTokens(trace[i - 1].path, ev.argv)
                  /\ IsAux(ev) => ev.argv = <<>>
                  /\ ev.op = "Getenv" =>
                        /\ ev.name \in {"REDISD", "MACHINED"}
                        /\ i < Len(trace)
                        /\ IsLaunch(trace[i + 1])
                        /\ ev.name = EnvOf(trace[i + 1].name)

\* REDISD held two tokens among white space, MACHINED white space only, and
\* an auxiliary daemon was launched
ExactOverrideWitness ==
    /\ StartupPath
    /\ Done
    /\ \E i \in Indexes :
          /\ trace[i] = GetenvEv("REDISD", <<" ", "a", "b", "\t", " ", "c", " ">>)
          /\ trace[i + 1] = MainEv("redisd", <<"ab", "c">>, "nil")
    /\ \E i \in Indexes :
          /\ trace[i] = GetenvEv("MACHINED", <<" ", "\t">>)
          /\ trace[i + 1] = MainEv("machined", <<>>, "nil")
    /\ Len(AuxLaunches) >= 1


\* the entries of /proc that belong to the caller itself
OwnEntries == {ExePath(Self), ExePath(ThreadSelf), ExePath(Itoa(thispid))}

\* C16: every identifier in pids is the pid of a process other than the
\* caller whose exe link the scan resolved to the caller's own image: it
\* comes from an entry of /proc/*/exe that is not one of the caller's own,
\* whose link resolved to thisprog, and it is the pid that entry belongs to.
\* An entry whose link does not resolve adds nothing and the scan goes on.
MatcherMembership ==
    /\ \A k \in 1..Len(pids) :
          /\ pids[k] \in Pids \ {thispid}
          /\ \E i \in Indexes :
                /\ trace[i] = ReadlinkEv(ExePath(Itoa(pids[k])), thisprog)
                /\ trace[i].path \notin OwnEntries
    /\ \A i \in Indexes :
          (trace[i].op = "Readlink" /\ i > 1 /\ trace[i].res = NoProc) =>
              (Done => result = Nil)


IsRemoveAll(ev) == ev.op = "RemoveAll"
Removals == {i \in Indexes : IsRemoveAll(trace[i])}

\* C17: stop runs its steps in one order: discovery (the links and the
\* enumeration), the SIGTERM pass, the sleep, the SIGKILL pass, the two
\* RemoveAll.  sockfile.RemoveAll and then pidfile.RemoveAll are the last two
\* calls stop makes, each made once, and when they are made the scan has
\* resolved every enumerated link, the SIGTERM pass has looked at every pid
\* of pids, the sleep is over and the SIGKILL pass has looked at every pid of
\* pids.
ReclaimOrdering ==
    StopPath =>
        LET sleeps == Sleeps
            removals == Removals
            n == Len(trace)
        IN  /\ \A i \in 1..(n - 1) :
                  /\ IsDiscovery(trace[i + 1]) => IsDiscovery(trace[i])
                  /\ IsRemoveAll(trace[i]) => IsRemoveAll(trace[i + 1])
            /\ \A i \in Indexes : \A s \in sleeps :
                  /\ IsKill(trace[i], "SIGKILL") => s < i
                  /\ IsKill(trace[i], "SIGTERM") => i < s
            /\ removals # {} =>
                  /\ removals = {n - 1, n}
                  /\ trace[n - 1].name = "sockfile"
                  /\ trace[n].name = "pidfile"
                  /\ Cardinality({i \in Indexes : trace[i].op = "Readlink"})
                         = 1 + Len(exes)
                  /\ Cardinality(sleeps) = 1
                  /\ \A s \in sleeps :
                        /\ Cardinality(StatsBefore(s)) = Len(pids)
                        /\ Cardinality(StatsAfter(s)) = Len(pids)
            /\ (Done /\ result = Nil) => removals # {}

\* both passes sent a signal, and pidfile.RemoveAll was called although
\* sockfile.RemoveAll had met an error
ReclaimOrderingWitness ==
    /\ StopPath
    /\ Done
    /\ \E i \in Indexes : IsKill(trace[i], "SIGTERM")
    /\ \E i \in Indexes : IsKill(trace[i], "SIGKILL")
    /\ trace[Len(trace) - 1] = RemoveAllEv("sockfile", "EACCES")
    /\ trace[Len(trace)].name = "pidfile"


Discovered == Len(trace) >= 2 /\ trace[1].res \in Images /\ trace[2].op = "Glob"

\* what a stop with these exes and pids calls at most: the links, the
\* enumeration, os.Stat and syscall.Kill per pid and pass, the sleep and the
\* two RemoveAll
MaxCalls == 1 + 1 + Len(exes) + (4 * Len(pids)) + 1 + 2

\* the steps of stop itself; the other steps are those of the host's other
\* processes
StopStep ==
    \/ StopSelf
    \/ StopGlob
    \/ StopScan
    \/ TermStat
    \/ TermKill
    \/ Sleep
    \/ KillStat
    \/ KillKill
    \/ \E esock \in RemoveErrs \cup {"nil"}, epid \in RemoveErrs \cup {"nil"} :
          Reclaim(esock, epid)

\* how far stop has come: the calls made so far and the place in the code
PcOrder(at) ==
    IF at = "stop" THEN 0
    ELSE IF at = "Glob" THEN 1
    ELSE IF at = "scan" THEN 2
    ELSE IF at \in {"term", "term-kill"} THEN 3
    ELSE IF at = "sleep" THEN 4
    ELSE IF at \in {"kill", "kill-kill"} THEN 5
    ELSE IF at = "reclaim" THEN 6
    ELSE 7
Progress == Len(trace) + PcOrder(pc)

StopBounded ==
    StopPath =>
        /\ Done \/ ENABLED StopStep
        /\ Progress <= MaxCalls + PcOrder("done")
        /\ Discovered =>
              /\ Cardinality(Sleeps) <= 1
              /\ \A i \in Indexes :
                    trace[i].op = "Kill" =>
                        \A j \in Indexes \ {i} : trace[j] # trace[i]
              /\ Done =>
                    /\ result = Nil
                    /\ Cardinality(Sleeps) = 1

\* C18: stop always comes to its return and waits for no process: until
\* it has returned its next statement can always be taken, whatever the
\* other processes do (a signalled process may stay alive for ever, a
\* target may be gone before its signal), and every statement taken brings
\* it nearer to the return, which a bounded number of calls reaches.  Once
\* discovery has succeeded it sleeps exactly once, sends each pid at most
\* one SIGTERM and at most one SIGKILL, and returns nil.
StopTerminates ==
    /\ []StopBounded
    /\ [][StopStep => Progress' > Progress]_vars

\* stop has returned nil; a sibling that was sent SIGTERM and SIGKILL is
\* still running, and another was gone before the SIGTERM pass reached it
StopTerminatesWitness ==
    /\ StopPath
    /\ Done
    /\ result = Nil
    /\ \E p \in Pids :
          /\ KillsTo(p, "SIGTERM") # {} /\ KillsTo(p, "SIGKILL") # {}
          /\ proc[p] = thisprog
    /\ \E q \in Pids, s \in Sleeps :
          \E j \in StatsBefore(s) : trace[j] = StatEv(Sprint(q), "ENOENT")


\* C19: stop never calls syscall.Kill with pid 0 nor with its own pid,
\* although the scan meets its own links (/proc/self/exe,
\* /proc/thread-self/exe, /proc/<thispid>/exe), which resolve to thisprog:
\* the 0 the first two put in pids never passes os.Stat.
NeverKillSelfOrZero ==
    \A i \in Indexes :
        /\ trace[i].op = "Kill" =>
              /\ trace[i].pid # 0
              /\ trace[i].pid # thispid
              /\ trace[i].pid \in Pids
        /\ (IsProcStat(trace[i]) /\ trace[i].path \in {Sprint(0), Sprint(thispid)}) =>
              /\ trace[i].path = Sprint(0)
              /\ trace[i].res # "nil"

\* the scan resolved both of the caller's non-numeric links to thisprog and
\* put 0 in pids, os.Stat of /proc/0/stat failed, and a sibling was signalled
NeverKillSelfOrZeroWitness ==
    /\ StopPath
    /\ Done
    /\ \E i \in Indexes : trace[i] = ReadlinkEv(ExePath(ThreadSelf), thisprog) /\ i > 1
    /\ \E i \in Indexes : trace[i] = ReadlinkEv(ExePath(Self), thisprog) /\ i > 1
    /\ \E k \in 1..Len(pids) : pids[k] = 0
    /\ \E i \in Indexes : trace[i] = StatEv(Sprint(0), "ENOENT")
    /\ \E i \in Indexes : trace[i].op = "Kill"


\* the step is a call of syscall.Kill
Signals == /\ Len(trace') = Len(trace) + 1
           /\ trace'[Len(trace')].op = "Kill"

\* C20: whenever stop sends SIGTERM or SIGKILL, the pid it signals belongs,
\* at that moment, to a process that runs the supervisor's image, whatever
\* the discovered processes and the host did since the scan (exits, pids
\* given to new processes).  Stated by the least it says: the signal reaches
\* no process that runs another image.
SignalsOnlySupervisorImage ==
    [][Signals => proc[trace'[Len(trace')].pid] \in {thisprog, NoProc}]_vars
====
